---- MODULE Spec2Model ----
(***************************************************************************)
(* SmartAgencyHub client pages: the Projects page (project form dialog,     *)
(* create/update mutations) and the Client dashboard (statistics and list   *)
(* queries, status badges, credential cards and their copy buttons),        *)
(* sharing one react-query cache.                                           *)
(*                                                                         *)
(* JavaScript values are represented as follows.                            *)
(*   string | null | undefined : a TLA+ string, with the two sentinels      *)
(*                               Null and Undefined;                        *)
(*   number | null | undefined : <<n>> for the number n, <<>> when absent;  *)
(*   T | null (objects)        : <<x>> for the object x, <<>> for null;     *)
(*   deadline values           : [kind, parts]; a string is the sequence    *)
(*       of its 'T'-separated parts, <<>> = "", <<d>> = "YYYY-MM-DD",       *)
(*       <<d, t>> = "YYYY-MM-DDTHH:MM:SS.sssZ"; a Date object holds <<d,t>>.*)
(*   amounts                   : integer numbers of cents; the amount of an *)
(*       invoice or payment is <<n>>, <<>> when null, and the record has no  *)
(*       amount field when it is undefined.                                 *)
(***************************************************************************)
EXTENDS Integers, Sequences, FiniteSets, TLC

\* ------------------------------------------------------------------ bounds
\* write requests issued in one run
MaxSubmits == 2
\* fields the user clears in one edit session (form round trips)
MaxClears == 1
\* lengths of the collections the statistics are aggregated from
MaxProjects == 2
MaxInvoices == 2
MaxPayments == 1
\* projects whose badges are rendered together
MaxBadges == 1
\* lengths of the collections the dashboard lists are cut from
MaxListLen == 6
\* credential records fetched together
MaxCredentials == 1
\* copy buttons clicked, and seconds elapsed, in one run
MaxCopies == 2
MaxTime == 3

\* ------------------------------------------------------- JavaScript values
Null == "<null>"
Undefined == "<undefined>"

\* v || d on string | null | undefined
StrOr(v, d) == IF v \in {Null, Undefined, ""} THEN d ELSE v

\* v ?? d on an optional number
NumNullish(v, d) == IF v = <<>> THEN d ELSE v[1]

\* truthiness of string | null | undefined
Truthy(v) == v \notin {Null, Undefined, ""}

NoDate == [kind |-> "null", parts |-> <<>>]
UndefinedDate == [kind |-> "undefined", parts |-> <<>>]
EmptyDateString == [kind |-> "string", parts |-> <<>>]
DateString(d) == [kind |-> "string", parts |-> <<d>>]
DateTimeString(d, t) == [kind |-> "string", parts |-> <<d, t>>]
DateObject(d, t) == [kind |-> "Date", parts |-> <<d, t>>]

\* new Date(x).toISOString(): the UTC date and time of the instant
toISOString(x) == [kind |-> "string", parts |-> <<x.parts[1], IF Len(x.parts) > 1 THEN x.parts[2] ELSE 0>>]

\* s.split('T')[0]
splitT0(s) == [kind |-> "string", parts |-> IF s.parts = <<>> THEN <<>> ELSE <<s.parts[1]>>]

\* ------------------------------------------------------------- form values
StringFields == {"shortVideoUrl", "fullFeatureVideoUrl", "hostingLink", "adminLoginLink", "adminUsername", "adminPassword", "credentialsNotes"}

\* the optional text fields of a Project, and all text fields of the form
OptionalTextFields == StringFields \cup {"description", "budget"}
TextFields == OptionalTextFields \cup {"clientId", "name", "status"}

\* useForm defaultValues / handleAddNew reset values (deadline is not listed)
createDefaults == [clientId |-> "", name |-> "", description |-> "", status |-> "planning", budget |-> "0", progress |-> <<0>>, deadline |-> UndefinedDate, shortVideoUrl |-> "", fullFeatureVideoUrl |-> "", hostingLink |-> "", adminLoginLink |-> "", adminUsername |-> "", adminPassword |-> "", credentialsNotes |-> ""]

\* the deadline expression of handleEdit
loadDeadline(deadline) == IF deadline.kind \in {"null", "undefined"} \/ deadline = EmptyDateString THEN EmptyDateString ELSE IF deadline.kind = "string" THEN deadline ELSE splitT0(toISOString(deadline))

\* the values handleEdit passes to form.reset
handleEditValues(project) == [clientId |-> project.clientId, name |-> project.name, description |-> StrOr(project.description, ""), status |-> project.status, budget |-> StrOr(project.budget, "0"), progress |-> <<NumNullish(project.progress, 0)>>, deadline |-> loadDeadline(project.deadline), shortVideoUrl |-> StrOr(project.shortVideoUrl, ""), fullFeatureVideoUrl |-> StrOr(project.fullFeatureVideoUrl, ""), hostingLink |-> StrOr(project.hostingLink, ""), adminLoginLink |-> StrOr(project.adminLoginLink, ""), adminUsername |-> StrOr(project.adminUsername, ""), adminPassword |-> StrOr(project.adminPassword, ""), credentialsNotes |-> StrOr(project.credentialsNotes, "")]

\* normalizeProjectData (lib/normalizeDateInputs): the deadline is coerced to a
\* calendar date, budget stays a decimal string, progress an integer, and
\* empty strings are kept
normalizeDeadline(deadline) == IF deadline.kind = "string" /\ deadline.parts # <<>> THEN DateString(deadline.parts[1]) ELSE deadline
normalizeProjectData(data) == [data EXCEPT !.deadline = normalizeDeadline(data.deadline)]

\* ---------------------------------------------------------------- server
\* (the API behind apiRequest and the default query function)

\* a canonical Project record
Project(id, status, opt, deadline) == [id |-> id, clientId |-> "c1", name |-> "Project " \o id, description |-> opt, status |-> status, budget |-> IF opt = Null THEN Null ELSE "5000", progress |-> IF opt = Null THEN <<>> ELSE <<40>>, deadline |-> deadline, shortVideoUrl |-> opt, fullFeatureVideoUrl |-> opt, hostingLink |-> opt, adminLoginLink |-> opt, adminUsername |-> opt, adminPassword |-> opt, credentialsNotes |-> opt]

\* the id the server gives to the n-th project
newId(n) == "p" \o ToString(n)

\* POST /api/projects: the stored record of a created project
createProject(id, body) == [body EXCEPT !.deadline = IF body.deadline.kind = "undefined" THEN NoDate ELSE body.deadline] @@ [id |-> id]

\* PATCH /api/projects/{id}: a partial update, absent keys are left alone
updateProject(project, body) == [f \in DOMAIN project |-> IF f = "id" THEN project.id ELSE IF f = "deadline" /\ body.deadline.kind = "undefined" THEN project.deadline ELSE body[f]]

applyRequest(projects, req) == IF req.method = "POST" THEN Append(projects, createProject(newId(Len(projects) + 1), req.body)) ELSE [i \in DOMAIN projects |-> IF projects[i].id = req.id THEN updateProject(projects[i], req.body) ELSE projects[i]]

\* GET /api/dashboard/stats: the Statistics Aggregator, a fold over each collection
RECURSIVE countStatus(_, _)
countStatus(items, status) == IF items = <<>> THEN 0 ELSE (IF Head(items).status = status THEN 1 ELSE 0) + countStatus(Tail(items), status)

\* the amount of an item, an absent amount adding nothing
amountOrZero(item) == IF "amount" \in DOMAIN item THEN NumNullish(item.amount, 0) ELSE 0

RECURSIVE sumAmount(_)
sumAmount(items) == IF items = <<>> THEN 0 ELSE amountOrZero(Head(items)) + sumAmount(Tail(items))

pendingStatuses == {"sent", "overdue"}
isPending(invoice) == invoice.status \in pendingStatuses

aggregate(projects, invoices, payments) == [totalProjects |-> <<Len(projects)>>, activeProjects |-> <<countStatus(projects, "active")>>, completedProjects |-> <<countStatus(projects, "completed")>>, totalInvoices |-> <<Len(invoices)>>, paidInvoices |-> <<countStatus(invoices, "paid")>>, totalSpent |-> <<sumAmount(payments)>>, pendingAmount |-> <<sumAmount(SelectSeq(invoices, isPending))>>]

\* messages of failed write requests
ServerErrors == {"400: Invalid project data", "500: Internal Server Error"}

\* ----------------------------------------------------------------- state
VARIABLES
    open,            \* projects.tsx: dialog open flag
    editingProject,  \* projects.tsx: <<>> or <<project>>
    showPassword,    \* projects.tsx: admin password shown in clear
    form,            \* react-hook-form: current field values
    formDefaults,    \* react-hook-form: values a bare reset() restores
    toast,           \* the latest notification
    issued,          \* number of write requests issued so far
    pending,         \* write requests in flight: [n, method, id, body]
    serverProjects,  \* server: project collection
    serverInvoices,  \* server: invoice collection
    serverPayments,  \* server: payment collection
    serverGen,       \* server: number of writes applied
    queries,         \* react-query cache, by query key
    serverCredentials,   \* server: the client's ProjectCredentials
    credentialsQuery,    \* client-dashboard.tsx: the credentials query
    copiedField,     \* client-dashboard.tsx: field whose copy is acknowledged
    writes,          \* clipboard writes awaited: [n, field, text]
    timers,          \* setTimeout callbacks not yet run: [n, due]
    now,             \* the time, in seconds
    clicks,          \* number of copy buttons clicked so far
    copyLog          \* the copies that succeeded: [n, field, at]

vars == <<open, editingProject, showPassword, form, formDefaults, toast, issued, pending, serverProjects, serverInvoices, serverPayments, serverGen, queries, serverCredentials, credentialsQuery, copiedField, writes, timers, now, clicks, copyLog>>

\* the dashboard's credentials and clipboard state
clipVars == <<serverCredentials, credentialsQuery, copiedField, writes, timers, now, clicks, copyLog>>

pageVars == <<open, editingProject, showPassword, form, formDefaults>>
serverVars == <<serverProjects, serverInvoices, serverPayments, serverGen>>

StatsKey == "/api/dashboard/stats"
ProjectsKey == "/api/projects"
InvoicesKey == "/api/invoices"
PaymentsKey == "/api/payments"
QueryKeys == {StatsKey, ProjectsKey, InvoicesKey, PaymentsKey}

\* a mounted query without data: its first fetch is on its way
\* (since: how many writes the server had applied when the latest fetch of the
\* query was issued; a record of the history, read by no operation)
freshQuery == [status |-> "loading", fetching |-> TRUE, data |-> <<>>, invalidated |-> FALSE, since |-> 0]

NoToast == [title |-> "", description |-> "", variant |-> ""]

InitialProjects == <<Project("p1", "active", Null, NoDate), Project("p2", "completed", "x", DateTimeString(19844, 36000))>>
InitialInvoices == <<[id |-> "i1", amount |-> <<10000>>, status |-> "paid"], [id |-> "i2", amount |-> <<5000>>, status |-> "sent"]>>
InitialPayments == <<[id |-> "y1", amount |-> <<10000>>]>>

\* a ProjectCredentials record
Credential(id, liveLink, adminPanelLink, databaseUrl, serverCreds, shortVideoUrl, fullVideoUrl) == [id |-> id, projectName |-> "Project " \o id, liveLink |-> liveLink, adminPanelLink |-> adminPanelLink, databaseUrl |-> databaseUrl, serverCredentials |-> serverCreds, shortVideoUrl |-> shortVideoUrl, fullVideoUrl |-> fullVideoUrl]

InitialCredentials == <<Credential("k1", "https://site", "https://site/admin", Null, Null, Null, Null)>>

\* the dashboard as mounted: no credentials yet, nothing copied
InitDashboard ==
    /\ credentialsQuery = freshQuery
    /\ copiedField = Null
    /\ writes = {}
    /\ timers = {}
    /\ now = 0
    /\ clicks = 0
    /\ copyLog = {}

InitPage ==
    /\ open = FALSE
    /\ editingProject = <<>>
    /\ showPassword = FALSE
    /\ form = createDefaults
    /\ formDefaults = createDefaults
    /\ toast = NoToast
    /\ issued = 0
    /\ pending = {}

Init ==
    /\ InitPage
    /\ serverProjects = InitialProjects
    /\ serverInvoices = InitialInvoices
    /\ serverPayments = InitialPayments
    /\ serverGen = 0
    /\ queries = [k \in QueryKeys |-> freshQuery]
    /\ serverCredentials = InitialCredentials
    /\ InitDashboard

\* -------------------------------------------------------- derived values
\* const { data: projects, isLoading } = useQuery(["/api/projects"])
projects == IF queries[ProjectsKey].data = <<>> THEN <<>> ELSE queries[ProjectsKey].data[1].body
projectsAbsent == queries[ProjectsKey].data = <<>>
isLoading == queries[ProjectsKey].status = "loading"

\* the dialog is rendered (it is part of the page rendered once loading is over)
dialogShown == open /\ ~isLoading

\* ---------------------------------------------------------- react-query
ServerResponse(k) == CASE k = StatsKey -> [gen |-> serverGen, body |-> aggregate(serverProjects, serverInvoices, serverPayments)]
    [] k = ProjectsKey -> [gen |-> serverGen, body |-> serverProjects]
    [] k = InvoicesKey -> [gen |-> 0, body |-> serverInvoices]
    [] OTHER -> [gen |-> 0, body |-> serverPayments]

\* the GET is answered from the server's collections: the query's data is
\* replaced as a whole
FetchSuccess(k) ==
    /\ queries[k].fetching
    /\ queries' = [queries EXCEPT ![k] = [status |-> "success", fetching |-> FALSE, data |-> <<ServerResponse(k)>>, invalidated |-> FALSE, since |-> queries[k].since]]
    /\ UNCHANGED <<clipVars, pageVars, toast, issued, pending, serverVars>>

\* the GET fails: the query keeps the data it had
FetchFail(k) ==
    /\ queries[k].fetching
    /\ queries' = [queries EXCEPT ![k].status = "error", ![k].fetching = FALSE]
    /\ UNCHANGED <<clipVars, pageVars, toast, issued, pending, serverVars>>

\* queryClient.invalidateQueries({ queryKey }): the matching mounted queries are
\* marked stale and fetched again, a fetch in flight is cancelled
invalidatedKeys == {ProjectsKey}
invalidateQueries(qs, gen) == [k \in QueryKeys |-> IF k \in invalidatedKeys THEN [qs[k] EXCEPT !.invalidated = TRUE, !.fetching = TRUE, !.since = gen, !.status = IF qs[k].data = <<>> THEN "loading" ELSE qs[k].status] ELSE qs[k]]

\* ------------------------------------------------------- Projects page
\* values the user types or selects, by field
EditChoices == {<<"name", "Site">>, <<"hostingLink", "">>}

\* a project card is clicked
HandleEdit(project) ==
    /\ ~isLoading /\ ~open
    /\ editingProject' = <<project>>
    /\ showPassword' = FALSE
    /\ form' = handleEditValues(project)
    /\ formDefaults' = handleEditValues(project)
    /\ open' = TRUE
    /\ UNCHANGED <<clipVars, toast, issued, pending, serverVars, queries>>

\* handleAddNew without its form.reset
HandleAddNewKeepsForm ==
    /\ ~isLoading /\ ~open
    /\ editingProject' = <<>>
    /\ showPassword' = FALSE
    /\ open' = TRUE
    /\ UNCHANGED <<clipVars, form, formDefaults, toast, issued, pending, serverVars, queries>>

\* the header's Add Project button
HandleAddNew ==
    /\ ~isLoading /\ ~open
    /\ editingProject' = <<>>
    /\ showPassword' = FALSE
    /\ form' = createDefaults
    /\ formDefaults' = createDefaults
    /\ open' = TRUE
    /\ UNCHANGED <<clipVars, toast, issued, pending, serverVars, queries>>

\* the Add Project button of the "No projects yet" card
EmptyStateAdd ==
    /\ ~isLoading /\ ~open
    /\ projectsAbsent \/ projects = <<>>
    /\ open' = TRUE
    /\ UNCHANGED <<clipVars, editingProject, showPassword, form, formDefaults, toast, issued, pending, serverVars, queries>>

\* Cancel, or the dialog's own close (onOpenChange)
Cancel ==
    /\ dialogShown
    /\ open' = FALSE
    /\ UNCHANGED <<clipVars, editingProject, showPassword, form, formDefaults, toast, issued, pending, serverVars, queries>>

TogglePassword ==
    /\ dialogShown
    /\ showPassword' = ~showPassword
    /\ UNCHANGED <<clipVars, open, editingProject, form, formDefaults, toast, issued, pending, serverVars, queries>>

\* formState.dirtyFields: the fields whose value differs from the last reset
dirtyFields == {f \in DOMAIN form : form[f] # formDefaults[f]}

\* the user changes one field of the form
EditField(f, v) ==
    /\ dialogShown
    /\ form[f] # v
    /\ form' = [form EXCEPT ![f] = v]
    /\ UNCHANGED <<clipVars, open, editingProject, showPassword, formDefaults, toast, issued, pending, serverVars, queries>>

\* onSubmit leaving the empty fields out of the request body
onSubmitDropsEmpty(editing, data) == [method |-> IF editing # <<>> THEN "PATCH" ELSE "POST", id |-> IF editing # <<>> THEN editing[1].id ELSE "", body |-> [f \in {g \in DOMAIN data : ~(g \in TextFields /\ data[g] = "")} |-> normalizeProjectData(data)[f]]]

\* onSubmit without its edit branch: every submission is a create
onSubmitAlwaysPost(editing, data) == [method |-> "POST", id |-> "", body |-> normalizeProjectData(data)]

\* onSubmit: the one write request of a submission
onSubmitRequest(editing, data) == IF editing # <<>> THEN [method |-> "PATCH", id |-> editing[1].id, body |-> normalizeProjectData(data)] ELSE [method |-> "POST", id |-> "", body |-> normalizeProjectData(data)]

\* form.handleSubmit(onSubmit) with values the resolver accepts (a rejected
\* submission never reaches onSubmit and issues no request)
Submit ==
    /\ dialogShown
    /\ issued < MaxSubmits
    /\ issued' = issued + 1
    /\ pending' = pending \cup {onSubmitRequest(editingProject, form) @@ [n |-> issued + 1]}
    /\ UNCHANGED <<clipVars, open, editingProject, showPassword, form, formDefaults, toast, serverVars, queries>>

successToast(req) == [title |-> "Success", description |-> IF req.method = "POST" THEN "Project created successfully" ELSE "Project updated successfully", variant |-> ""]
errorToast(message) == [title |-> "Error", description |-> message, variant |-> "destructive"]

\* the write is applied and answered: createMutation / updateMutation onSuccess
MutationSuccess(req) ==
    /\ req \in pending
    /\ pending' = pending \ {req}
    /\ serverProjects' = applyRequest(serverProjects, req)
    /\ serverGen' = serverGen + 1
    /\ queries' = invalidateQueries(queries, serverGen + 1)
    /\ toast' = successToast(req)
    /\ open' = FALSE
    /\ editingProject' = <<>>
    /\ form' = formDefaults
    /\ UNCHANGED <<clipVars, showPassword, formDefaults, issued, serverInvoices, serverPayments>>

\* onError written like onSuccess: the dialog is closed and the form reset
MutationErrorResetsForm(req, message) ==
    /\ req \in pending
    /\ pending' = pending \ {req}
    /\ toast' = errorToast(message)
    /\ open' = FALSE
    /\ editingProject' = <<>>
    /\ form' = formDefaults
    /\ UNCHANGED <<clipVars, showPassword, formDefaults, issued, serverVars, queries>>

\* the write is refused: createMutation / updateMutation onError
MutationError(req, message) ==
    /\ req \in pending
    /\ pending' = pending \ {req}
    /\ toast' = errorToast(message)
    /\ UNCHANGED <<clipVars, pageVars, issued, serverVars, queries>>

\* ---------------------------------------------------- Client dashboard
\* const { data: stats, isLoading: statsLoading } = useQuery([".../stats"])
stats == IF queries[StatsKey].data = <<>> THEN <<>> ELSE <<queries[StatsKey].data[1].body>>
statsLoading == queries[StatsKey].status = "loading"
invoices == IF queries[InvoicesKey].data = <<>> THEN <<>> ELSE queries[InvoicesKey].data[1].body
payments == IF queries[PaymentsKey].data = <<>> THEN <<>> ELSE queries[PaymentsKey].data[1].body

\* stats?.field
statsField(s, f) == IF s = <<>> THEN <<>> ELSE s[1][f]

\* amount.toFixed(2), the amount being a number of cents
toFixed(cents) == ToString(cents \div 100) \o "." \o (IF cents % 100 < 10 THEN "0" ELSE "") \o ToString(cents % 100)

\* `${stats?.field?.toFixed(2) ?? "0.00"}`
moneyOrZero(v) == IF v = <<>> THEN "0.00" ELSE toFixed(v[1])

\* the kpis without their fallbacks: an absent value is rendered as it is
kpisNoFallback(s) == <<NumNullish(statsField(s, "totalProjects"), -1), NumNullish(statsField(s, "activeProjects"), -1), NumNullish(statsField(s, "completedProjects"), -1), IF statsField(s, "totalSpent") = <<>> THEN "undefined" ELSE toFixed(statsField(s, "totalSpent")[1]), IF statsField(s, "pendingAmount") = <<>> THEN "undefined" ELSE toFixed(statsField(s, "pendingAmount")[1]), NumNullish(statsField(s, "paidInvoices"), -1)>>

\* the kpis with the two amounts taken from each other's field
kpisAmountsSwapped(s) == <<NumNullish(statsField(s, "totalProjects"), 0), NumNullish(statsField(s, "activeProjects"), 0), NumNullish(statsField(s, "completedProjects"), 0), moneyOrZero(statsField(s, "pendingAmount")), moneyOrZero(statsField(s, "totalSpent")), NumNullish(statsField(s, "paidInvoices"), 0)>>

\* the values of the six KPI cards, in their order: Total Projects, Active
\* Projects, Completed Projects, Total Spent, Pending Amount, Paid Invoices
kpis(s) == <<NumNullish(statsField(s, "totalProjects"), 0), NumNullish(statsField(s, "activeProjects"), 0), NumNullish(statsField(s, "completedProjects"), 0), moneyOrZero(statsField(s, "totalSpent")), moneyOrZero(statsField(s, "pendingAmount")), NumNullish(statsField(s, "paidInvoices"), 0)>>

\* the KPI cards are rendered once the first stats fetch is over
kpisShown == ~statsLoading

\* --------------------------------------------------------- derived views
DefaultTag == "bg-muted text-muted-foreground"

\* getStatusColor of the Projects page
projectsGetStatusColor(status) == CASE status = "planning" -> "bg-blue-100 text-blue-700 dark:bg-blue-950 dark:text-blue-300"
    [] status = "active" -> "bg-green-100 text-green-700 dark:bg-green-950 dark:text-green-300"
    [] status = "on-hold" -> "bg-yellow-100 text-yellow-700 dark:bg-yellow-950 dark:text-yellow-300"
    [] status = "completed" -> "bg-purple-100 text-purple-700 dark:bg-purple-950 dark:text-purple-300"
    [] OTHER -> DefaultTag

\* the dashboard's getStatusColor without its last case
dashboardGetStatusColorNoOverdue(status) == CASE status \in {"planning", "draft"} -> "bg-gray-100 text-gray-700 dark:bg-gray-800 dark:text-gray-300"
    [] status \in {"active", "sent"} -> "bg-blue-100 text-blue-700 dark:bg-blue-950 dark:text-blue-300"
    [] status = "on-hold" -> "bg-yellow-100 text-yellow-700 dark:bg-yellow-950 dark:text-yellow-300"
    [] status \in {"completed", "paid"} -> "bg-green-100 text-green-700 dark:bg-green-950 dark:text-green-300"
    [] OTHER -> DefaultTag

\* getStatusColor of the Client dashboard
dashboardGetStatusColor(status) == CASE status = "planning" -> "bg-gray-100 text-gray-700 dark:bg-gray-800 dark:text-gray-300"
    [] status = "active" -> "bg-blue-100 text-blue-700 dark:bg-blue-950 dark:text-blue-300"
    [] status = "on-hold" -> "bg-yellow-100 text-yellow-700 dark:bg-yellow-950 dark:text-yellow-300"
    [] status = "completed" -> "bg-green-100 text-green-700 dark:bg-green-950 dark:text-green-300"
    [] status = "draft" -> "bg-gray-100 text-gray-700 dark:bg-gray-800 dark:text-gray-300"
    [] status = "sent" -> "bg-blue-100 text-blue-700 dark:bg-blue-950 dark:text-blue-300"
    [] status = "paid" -> "bg-green-100 text-green-700 dark:bg-green-950 dark:text-green-300"
    [] status = "overdue" -> "bg-red-100 text-red-700 dark:bg-red-950 dark:text-red-300"
    [] OTHER -> DefaultTag

\* {project.progress}%: null and undefined render as nothing
progressLabel(project) == (IF project.progress = <<>> THEN "" ELSE ToString(project.progress[1])) \o "%"

\* <Progress value={project.progress ?? 0} />
progressValue(project) == NumNullish(project.progress, 0)

\* items.slice(0, 5)
slice5(items) == SubSeq(items, 1, IF Len(items) < 5 THEN Len(items) ELSE 5)

isActive(project) == project.status = "active"

\* Number(item.amount).toFixed(2): Number(undefined) is NaN, Number(null) is 0
amountDisplay(item) == IF "amount" \notin DOMAIN item THEN "NaN" ELSE toFixed(NumNullish(item.amount, 0))

\* the filter of the Active Projects card applied after the slice
activeProjectsListSliceFirst == SelectSeq(slice5(projects), isActive)

\* projects?.filter(p => p.status === "active").slice(0, 5)
activeProjectsList == slice5(SelectSeq(projects, isActive))

\* the rows of the dashboard's Active Projects card
activeProjectRows == [i \in DOMAIN activeProjectsList |-> [id |-> activeProjectsList[i].id, tag |-> dashboardGetStatusColor(activeProjectsList[i].status), badge |-> progressLabel(activeProjectsList[i]), bar |-> progressValue(activeProjectsList[i])]]

\* the "No active projects" line
noActiveProjects == projectsAbsent \/ Len(SelectSeq(projects, isActive)) = 0

\* invoices?.slice(0, 5) and payments?.slice(0, 5), as rendered
invoiceRows == [i \in DOMAIN slice5(invoices) |-> [id |-> invoices[i].id, amount |-> amountDisplay(invoices[i]), status |-> invoices[i].status, tag |-> dashboardGetStatusColor(invoices[i].status)]]
paymentRows == [i \in DOMAIN slice5(payments) |-> [id |-> payments[i].id, amount |-> amountDisplay(payments[i])]]

\* the cards of the Projects page
projectCards == [i \in DOMAIN projects |-> [id |-> projects[i].id, tag |-> projectsGetStatusColor(projects[i].status), label |-> progressLabel(projects[i]), bar |-> progressValue(projects[i])]]

\* the Projects page shows its cards once loaded, unless there is no project
projectCardsShown == ~isLoading /\ ~projectsAbsent /\ projects # <<>>

\* ------------------------------------------- credentials and clipboard
\* const { data: credentials } = useQuery(["/api/project-credentials/client"])
credentials == IF credentialsQuery.data = <<>> THEN <<>> ELSE credentialsQuery.data[1].body
credentialsAbsent == credentialsQuery.data = <<>>

\* the credentials GET is answered, or fails
FetchCredentialsSuccess ==
    /\ credentialsQuery.fetching
    /\ credentialsQuery' = [status |-> "success", fetching |-> FALSE, data |-> <<[gen |-> 0, body |-> serverCredentials]>>, invalidated |-> FALSE, since |-> credentialsQuery.since]
    /\ UNCHANGED <<pageVars, toast, issued, pending, serverVars, queries, serverCredentials, copiedField, writes, timers, now, clicks, copyLog>>

FetchCredentialsFail ==
    /\ credentialsQuery.fetching
    /\ credentialsQuery' = [credentialsQuery EXCEPT !.status = "error", !.fetching = FALSE]
    /\ UNCHANGED <<pageVars, toast, issued, pending, serverVars, queries, serverCredentials, copiedField, writes, timers, now, clicks, copyLog>>

\* the elements of the four link groups of a credential card, by data-testid
linkElements(c) ==
    (IF Truthy(c.liveLink) THEN {"button-copy-live-" \o c.id, "button-open-live-" \o c.id} ELSE {})
    \cup (IF Truthy(c.adminPanelLink) THEN {"button-copy-admin-" \o c.id, "button-open-admin-" \o c.id} ELSE {})
    \cup (IF Truthy(c.databaseUrl) THEN {"button-copy-db-" \o c.id} ELSE {})
    \cup (IF Truthy(c.serverCredentials) THEN {"button-copy-server-" \o c.id} ELSE {})

\* the video row written with one guard for both buttons
videoElementsBothOrNone(c) == IF Truthy(c.shortVideoUrl) /\ Truthy(c.fullVideoUrl) THEN {"video-row-" \o c.id, "button-short-video-" \o c.id, "button-full-video-" \o c.id} ELSE {}

\* the video row of a credential card and its buttons
videoElements(c) == IF Truthy(c.shortVideoUrl) \/ Truthy(c.fullVideoUrl) THEN {"video-row-" \o c.id} \cup (IF Truthy(c.shortVideoUrl) THEN {"button-short-video-" \o c.id} ELSE {}) \cup (IF Truthy(c.fullVideoUrl) THEN {"button-full-video-" \o c.id} ELSE {}) ELSE {}

\* a credential card: its header is always rendered, its content by field
credentialCard(c) == [id |-> c.id, name |-> c.projectName, elements |-> linkElements(c) \cup videoElements(c)]

\* {credentials && credentials.length > 0 && (...)}: no section, or the heading
\* and one card per record
credentialsSection == IF ~credentialsAbsent /\ Len(credentials) > 0 THEN <<[heading |-> "Your Project Credentials", cards |-> [i \in DOMAIN credentials |-> credentialCard(credentials[i])]]>> ELSE <<>>

\* the copy buttons rendered, as the arguments of their copyToClipboard call
copyButtons == IF statsLoading THEN {} ELSE UNION {
    (IF Truthy(credentials[i].liveLink) THEN {[text |-> credentials[i].liveLink, field |-> "live-" \o credentials[i].id]} ELSE {})
    \cup (IF Truthy(credentials[i].adminPanelLink) THEN {[text |-> credentials[i].adminPanelLink, field |-> "admin-" \o credentials[i].id]} ELSE {})
    \cup (IF Truthy(credentials[i].databaseUrl) THEN {[text |-> credentials[i].databaseUrl, field |-> "db-" \o credentials[i].id]} ELSE {})
    \cup (IF Truthy(credentials[i].serverCredentials) THEN {[text |-> credentials[i].serverCredentials, field |-> "server-" \o credentials[i].id]} ELSE {}) : i \in DOMAIN credentials}

\* setTimeout(..., 2000), in seconds
CopiedDelay == 2

\* a copy button is clicked: copyToClipboard runs up to its await
CopyToClipboard(text, field) ==
    /\ [text |-> text, field |-> field] \in copyButtons
    /\ clicks < MaxCopies
    /\ clicks' = clicks + 1
    /\ writes' = writes \cup {[n |-> clicks + 1, field |-> field, text |-> text]}
    /\ UNCHANGED <<pageVars, toast, issued, pending, serverVars, queries, serverCredentials, credentialsQuery, copiedField, timers, now, copyLog>>

\* copyToClipboard with the indicator set as on success
WriteRejectedSetsCopied(w) ==
    /\ w \in writes
    /\ writes' = writes \ {w}
    /\ copiedField' = w.field
    /\ timers' = timers \cup {[n |-> w.n, due |-> now + CopiedDelay]}
    /\ toast' = [title |-> "Failed to copy", description |-> "", variant |-> "destructive"]
    /\ UNCHANGED <<pageVars, issued, pending, serverVars, queries, serverCredentials, credentialsQuery, now, clicks, copyLog>>

\* navigator.clipboard.writeText rejects: the catch branch
WriteRejected(w) ==
    /\ w \in writes
    /\ writes' = writes \ {w}
    /\ toast' = [title |-> "Failed to copy", description |-> "", variant |-> "destructive"]
    /\ UNCHANGED <<pageVars, issued, pending, serverVars, queries, serverCredentials, credentialsQuery, copiedField, timers, now, clicks, copyLog>>

\* navigator.clipboard.writeText resolves: the rest of the try branch
WriteResolved(w) ==
    /\ w \in writes
    /\ writes' = writes \ {w}
    /\ copiedField' = w.field
    /\ toast' = [title |-> "Copied to clipboard", description |-> "", variant |-> ""]
    /\ timers' = timers \cup {[n |-> w.n, due |-> now + CopiedDelay]}
    /\ copyLog' = copyLog \cup {[n |-> w.n, field |-> w.field, at |-> now]}
    /\ UNCHANGED <<pageVars, issued, pending, serverVars, queries, serverCredentials, credentialsQuery, now, clicks>>

\* a timer set by copyToClipboard runs: () => setCopiedField(null)
TimerFires(t) ==
    /\ t \in timers
    /\ now >= t.due
    /\ timers' = timers \ {t}
    /\ copiedField' = Null
    /\ UNCHANGED <<pageVars, toast, issued, pending, serverVars, queries, serverCredentials, credentialsQuery, writes, now, clicks, copyLog>>

\* a second passes; a timer that is due runs first
Tick ==
    /\ now < MaxTime
    /\ \A t \in timers : t.due > now
    /\ now' = now + 1
    /\ UNCHANGED <<pageVars, toast, issued, pending, serverVars, queries, serverCredentials, credentialsQuery, copiedField, writes, timers, clicks, copyLog>>

\* ------------------------------------------------------- specifications
PageNext ==
    \/ \E i \in DOMAIN projects : HandleEdit(projects[i])
    \/ HandleAddNew
    \/ EmptyStateAdd
    \/ Cancel
    \/ TogglePassword
    \/ \E c \in EditChoices : EditField(c[1], c[2])
    \/ Submit
    \/ \E req \in pending : MutationSuccess(req)
    \/ \E req \in pending, m \in ServerErrors : MutationError(req, m)

\* the Projects page with its query
Next ==
    \/ PageNext
    \/ FetchSuccess(ProjectsKey) \/ FetchFail(ProjectsKey)

Spec == Init /\ [][Next]_vars

\* the dashboard's queries beside the page's create and update flows
DashNext ==
    \/ \E i \in DOMAIN projects : HandleEdit(projects[i])
    \/ HandleAddNew
    \/ Cancel
    \/ Submit
    \/ \E req \in pending : MutationSuccess(req)
    \/ \E req \in pending, m \in ServerErrors : MutationError(req, m)
    \/ \E k \in QueryKeys : FetchSuccess(k) \/ FetchFail(k)

DashSpec == Init /\ [][DashNext]_vars

\* every request sent to the server is answered, by a result or by an error
Answered ==
    /\ WF_vars(\E k \in QueryKeys : FetchSuccess(k) \/ FetchFail(k))
    /\ WF_vars(\E req \in pending : MutationSuccess(req) \/ \E m \in ServerErrors : MutationError(req, m))

DashFairSpec == DashSpec /\ Answered

\* the form's load and save directions on every shape of canonical Project:
\* each optional field present or absent; the deadline absent, a plain date
\* string, a date-time string (what the JSON of a timestamp holds) or a Date
\* (what the Project type declares)
CanonicalProjects == {[Project("p1", "active", Null, dl) EXCEPT !.description = de, !.budget = bu, !.progress = pr, !.shortVideoUrl = o[1], !.fullFeatureVideoUrl = o[2], !.hostingLink = o[3], !.adminLoginLink = o[4], !.adminUsername = o[5], !.adminPassword = o[6], !.credentialsNotes = o[7]] : de \in {Null, "text"}, bu \in {Null, "5000"}, pr \in {<<>>, <<40>>}, dl \in {NoDate, DateString(19844), DateTimeString(19844, 36000), DateObject(19844, 36000)}, o \in [1..7 -> {Null, "v"}]}

FormInit ==
    /\ InitPage
    /\ serverProjects \in {<<p>> : p \in CanonicalProjects}
    /\ serverInvoices = InitialInvoices
    /\ serverPayments = InitialPayments
    /\ serverGen = 0
    /\ queries = [k \in QueryKeys |-> freshQuery]
    /\ serverCredentials = InitialCredentials
    /\ InitDashboard

FormNext ==
    \/ FetchSuccess(ProjectsKey)
    \/ \E i \in DOMAIN projects : HandleEdit(projects[i])
    \/ \E f \in OptionalTextFields : pending = {} /\ Cardinality(dirtyFields) < MaxClears /\ EditField(f, "")
    \/ pending = {} /\ Submit

FormSpec == FormInit /\ [][FormNext]_vars

\* the statistics on every shape of the three collections
ProjectStatuses == {"planning", "active", "completed"}
InvoiceChoices == {[amount |-> <<10000>>, status |-> "paid"], [amount |-> <<5000>>, status |-> "sent"], [amount |-> <<2550>>, status |-> "overdue"], [amount |-> <<705>>, status |-> "draft"]}
PaymentAmounts == {10000, 199}
SeqsUpTo(S, n) == UNION {[1..m -> S] : m \in 0..n}

StatsInit ==
    /\ InitPage
    /\ serverProjects \in {[i \in DOMAIN ss |-> Project(newId(i), ss[i], Null, NoDate)] : ss \in SeqsUpTo(ProjectStatuses, MaxProjects)}
    /\ serverInvoices \in {[i \in DOMAIN cs |-> cs[i] @@ [id |-> "i" \o ToString(i)]] : cs \in SeqsUpTo(InvoiceChoices, MaxInvoices)}
    /\ serverPayments \in {[i \in DOMAIN as |-> [id |-> "y" \o ToString(i), amount |-> <<as[i]>>]] : as \in SeqsUpTo(PaymentAmounts, MaxPayments)}
    /\ serverGen = 0
    /\ queries = [k \in QueryKeys |-> freshQuery]
    /\ serverCredentials = InitialCredentials
    /\ InitDashboard

StatsNext ==
    \/ \E k \in QueryKeys : FetchSuccess(k)
    \/ FetchFail(StatsKey)

StatsSpec == StatsInit /\ [][StatsNext]_vars

\* the status badges and progress labels on every status string and progress
StatusInputs == {"planning", "active", "on-hold", "completed", "draft", "sent", "paid", "overdue", "archived", "Active", ""}
ProgressInputs == {<<>>, <<0>>, <<40>>}

BadgeInit ==
    /\ InitPage
    /\ serverProjects \in {[i \in DOMAIN ss |-> [Project(newId(i), ss[i][1], "x", NoDate) EXCEPT !.progress = ss[i][2]]] : ss \in SeqsUpTo(StatusInputs \X ProgressInputs, MaxBadges)}
    /\ serverInvoices \in {<<[id |-> "i1", amount |-> <<5000>>, status |-> st]>> : st \in StatusInputs}
    /\ serverPayments = InitialPayments
    /\ serverGen = 0
    /\ queries = [k \in QueryKeys |-> freshQuery]
    /\ serverCredentials = InitialCredentials
    /\ InitDashboard

BadgeNext ==
    \/ \E k \in {StatsKey, ProjectsKey, InvoicesKey} : FetchSuccess(k)
    \/ FetchFail(StatsKey)

BadgeSpec == BadgeInit /\ [][BadgeNext]_vars

\* the credential cards on every shape of ProjectCredentials record
LinkInputs == {Null, "", "https://site"}
CredentialInputs == {Credential("k", l, a, d, sv, sh, fu) : l \in LinkInputs \cup {Undefined}, a \in LinkInputs, d \in {Null, "postgres://db"}, sv \in {Null, "root:pw"}, sh \in {Null, "https://v/short"}, fu \in {Null, "https://v/full"}}

CredInit ==
    /\ InitPage
    /\ serverProjects = InitialProjects
    /\ serverInvoices = InitialInvoices
    /\ serverPayments = InitialPayments
    /\ serverGen = 0
    /\ queries = [k \in QueryKeys |-> freshQuery]
    /\ serverCredentials \in {[i \in DOMAIN cs |-> [cs[i] EXCEPT !.id = "k" \o ToString(i)]] : cs \in SeqsUpTo(CredentialInputs, MaxCredentials)}
    /\ InitDashboard

CredNext ==
    \/ FetchSuccess(StatsKey) \/ FetchFail(StatsKey)
    \/ FetchCredentialsSuccess \/ FetchCredentialsFail

CredSpec == CredInit /\ [][CredNext]_vars

\* the dashboard's copy buttons and the clock
ClipNext ==
    \/ FetchSuccess(StatsKey)
    \/ FetchCredentialsSuccess
    \/ \E b \in copyButtons : CopyToClipboard(b.text, b.field)
    \/ \E w \in writes : WriteResolved(w)
    \/ \E w \in writes : WriteRejected(w)
    \/ \E t \in timers : TimerFires(t)
    \/ Tick

ClipSpec == Init /\ [][ClipNext]_vars

\* the dashboard's lists on collections longer than the lists
ListInit ==
    /\ InitPage
    /\ serverProjects \in {[i \in DOMAIN ss |-> Project(newId(i), ss[i], Null, NoDate)] : ss \in SeqsUpTo({"active", "completed"}, MaxListLen)}
    /\ serverInvoices \in {[i \in 1..n |-> [id |-> "i" \o ToString(i), amount |-> <<100 * i>>, status |-> "sent"]] : n \in 0..MaxListLen}
    /\ serverPayments \in {[i \in 1..n |-> [id |-> "y" \o ToString(i), amount |-> <<100 * i>>]] : n \in 0..MaxListLen}
    /\ serverGen = 0
    /\ queries = [k \in QueryKeys |-> freshQuery]
    /\ serverCredentials = InitialCredentials
    /\ InitDashboard

ListNext == \E k \in QueryKeys : FetchSuccess(k)

ListSpec == ListInit /\ [][ListNext]_vars

\* the amounts displayed, on every shape of amount
AmountInputs == {<<>>, <<0>>, <<5>>, <<705>>, <<10000>>, <<123456>>}
AmountShapes(item) == {item} \cup {item @@ [amount |-> a] : a \in AmountInputs}

MoneyInit ==
    /\ InitPage
    /\ serverProjects = InitialProjects
    /\ serverInvoices \in {<<inv>> : inv \in AmountShapes([id |-> "i1", status |-> "sent"])}
    /\ serverPayments \in {<<pay>> : pay \in AmountShapes([id |-> "y1"])}
    /\ serverGen = 0
    /\ queries = [k \in QueryKeys |-> freshQuery]
    /\ serverCredentials = InitialCredentials
    /\ InitDashboard

MoneyNext ==
    \/ \E k \in {StatsKey, InvoicesKey, PaymentsKey} : FetchSuccess(k)
    \/ FetchFail(StatsKey)

MoneySpec == MoneyInit /\ [][MoneyNext]_vars

\* ------------------------------------------------------------- claims
\* C1: a failed create or update changes nothing of the dialog: it stays open
\* if it was open, every form field keeps the value the user entered,
\* editingProject is unchanged, and the only effect is an error notification
\* whose description is the message the server provided
C1_FailureKeepsForm == [][\A req \in pending, m \in ServerErrors : MutationError(req, m) => (open' = open /\ dialogShown' = dialogShown /\ form' = form /\ formDefaults' = formDefaults /\ editingProject' = editingProject /\ showPassword' = showPassword /\ toast' = [title |-> "Error", description |-> m, variant |-> "destructive"])]_vars

\* C1 witness: a failure was reported while the dialog of an edited project is
\* open with user input in the form
C1_Witness == toast.variant = "destructive" /\ dialogShown /\ editingProject # <<>> /\ dirtyFields # {} /\ pending = {}

\* C2: a submission issues exactly one write request; it is a POST when
\* editingProject is null, otherwise a PATCH for the id of the project the form
\* was last loaded from by handleEdit, and its body is the normalized form
C2_OneRequestPerSubmit == [][issued' # issued => (/\ issued' = issued + 1
        /\ pending \subseteq pending'
        /\ Cardinality(pending' \ pending) = 1
        /\ \A r \in pending' \ pending :
            /\ r.n = issued'
            /\ r.body = normalizeProjectData(form)
            /\ editingProject = <<>> => (r.method = "POST" /\ r.id = "")
            /\ editingProject # <<>> => (r.method = "PATCH" /\ r.id = editingProject[1].id /\ formDefaults = handleEditValues(editingProject[1])))]_vars

\* C2 witness: a create and an update of project p2 have both been submitted
C2_Witness == (\E r \in pending : r.method = "PATCH" /\ r.id = "p2") /\ (\E r \in pending : r.method = "POST")

\* semantic equality of a canonical record and a patch: the same field values,
\* an absent optional text equal to the empty one, an absent progress equal to
\* its default 0, deadlines equal as calendar dates
calendarDate(d) == IF d.parts = <<>> THEN <<>> ELSE <<d.parts[1]>>
semanticallyEqual(record, patch) ==
    /\ \A f \in {"clientId", "name", "status"} : patch[f] = record[f]
    /\ \A f \in OptionalTextFields : StrOr(patch[f], "") = StrOr(record[f], "")
    /\ NumNullish(patch.progress, 0) = NumNullish(record.progress, 0)
    /\ calendarDate(patch.deadline) = calendarDate(record.deadline)

\* C3: round trip: a project loaded by handleEdit and submitted without any
\* edit gives a patch semantically equal to the project
C3_RoundTrip == \A r \in pending : (r.method = "PATCH" /\ editingProject # <<>> /\ dirtyFields = {}) => semanticallyEqual(editingProject[1], r.body)

\* C3, apart from the budget: the round trip keeps every other field
C3_RoundTripButBudget == \A r \in pending : (r.method = "PATCH" /\ editingProject # <<>> /\ dirtyFields = {}) => semanticallyEqual([editingProject[1] EXCEPT !.budget = StrOr(@, "0")], r.body)

\* C4: load direction: every optional field absent in the project is the empty
\* string in the loaded form, and no loaded field is undefined
C4_AbsentLoadsEmpty == editingProject # <<>> =>
    /\ \A f \in OptionalTextFields : editingProject[1][f] \in {Null, Undefined} => formDefaults[f] = ""
    /\ editingProject[1].deadline.kind \in {"null", "undefined"} => formDefaults.deadline = EmptyDateString
    /\ \A f \in TextFields : formDefaults[f] # Undefined
    /\ formDefaults.deadline.kind # "undefined"
    /\ formDefaults.progress # <<>>

\* C4, apart from the budget: every other absent optional field loads as the
\* empty string, an absent budget loads as "0", and no field is undefined
C4_AbsentLoadsEmptyButBudget == editingProject # <<>> =>
    /\ \A f \in OptionalTextFields \ {"budget"} : editingProject[1][f] \in {Null, Undefined} => formDefaults[f] = ""
    /\ editingProject[1].budget \in {Null, Undefined} => formDefaults.budget = "0"
    /\ editingProject[1].deadline.kind \in {"null", "undefined"} => formDefaults.deadline = EmptyDateString
    /\ \A f \in TextFields : formDefaults[f] # Undefined
    /\ formDefaults.deadline.kind # "undefined"
    /\ formDefaults.progress # <<>>

\* C5: a loaded deadline holding a date and a time of day becomes the date-only
\* string YYYY-MM-DD, and a plain date string is copied unchanged
C5_DeadlineTruncated == editingProject # <<>> =>
    /\ Len(editingProject[1].deadline.parts) = 2 => formDefaults.deadline = DateString(editingProject[1].deadline.parts[1])
    /\ (editingProject[1].deadline.kind = "string" /\ Len(editingProject[1].deadline.parts) = 1) => formDefaults.deadline = editingProject[1].deadline

\* C5, for Date objects only: a Date is truncated to YYYY-MM-DD, and every
\* string deadline is copied unchanged
C5_DateObjectTruncated == editingProject # <<>> =>
    /\ editingProject[1].deadline.kind = "Date" => formDefaults.deadline = DateString(editingProject[1].deadline.parts[1])
    /\ editingProject[1].deadline.kind = "string" => formDefaults.deadline = editingProject[1].deadline

\* C6: save direction: every form field that is the empty string when the form
\* is submitted is in the request body, as the empty string
C6_EmptySubmitted == [][issued' # issued => \A r \in pending' \ pending :
        /\ \A f \in TextFields : form[f] = "" => (f \in DOMAIN r.body /\ r.body[f] = "")
        /\ form.deadline = EmptyDateString => ("deadline" \in DOMAIN r.body /\ r.body.deadline = EmptyDateString)]_vars

\* C6 witness: a project with a hosting link was loaded, the link cleared, and
\* the PATCH in flight carries the empty hosting link
C6_Witness == editingProject # <<>> /\ Truthy(editingProject[1].hostingLink) /\ (\E r \in pending : r.method = "PATCH" /\ r.id = editingProject[1].id /\ r.body.hostingLink = "")

\* the sum of the amounts of the items at the positions in S, in any order
RECURSIVE sumAt(_, _)
sumAt(items, S) == IF S = {} THEN 0 ELSE LET i == CHOOSE j \in S : TRUE IN items[i].amount[1] + sumAt(items, S \ {i})
countOf(items, statuses) == Cardinality({i \in DOMAIN items : items[i].status \in statuses})
expectedKpis(ps, is, ys) == <<Len(ps), countOf(ps, {"active"}), countOf(ps, {"completed"}), toFixed(sumAt(ys, DOMAIN ys)), toFixed(sumAt(is, {i \in DOMAIN is : is[i].status \in {"sent", "overdue"}})), countOf(is, {"paid"})>>
reordered(items, p) == [i \in DOMAIN items |-> items[p[i]]]

C8_EmptyIsZero == (kpisShown /\ (stats = <<>> \/ (serverProjects = <<>> /\ serverInvoices = <<>> /\ serverPayments = <<>>))) => kpis(stats) = <<0, 0, 0, "0.00", "0.00", 0>>

\* C8 witness: the stats fetch has failed while the collections are not empty
C8_Witness == queries[StatsKey].status = "error" /\ stats = <<>> /\ kpisShown /\ serverProjects # <<>> /\ serverPayments # <<>>

\* C9: the stats snapshot shown and the project collection shown beside it are
\* of the same generation of the server's data
C9_SameGeneration == (kpisShown /\ queries[StatsKey].data # <<>> /\ queries[ProjectsKey].data # <<>>) => queries[StatsKey].data[1].gen = queries[ProjectsKey].data[1].gen

\* C10: every successful create or update is eventually followed by a fetch of
\* the project collection and by a fetch of the statistics issued after it
C10_RefetchAfterSuccess == \A g \in 1..MaxSubmits : [](serverGen = g => <>(queries[ProjectsKey].since >= g /\ queries[StatsKey].since >= g))

\* C10, for the project collection alone: its fetch is issued with the success
C10_ProjectsRefetched == \A g \in 1..MaxSubmits : [](serverGen = g => queries[ProjectsKey].since >= g /\ (queries[ProjectsKey].fetching \/ queries[ProjectsKey].status = "error" \/ queries[ProjectsKey].data[1].gen >= g))

KnownStatuses == {"planning", "active", "on-hold", "completed", "draft", "sent", "paid", "overdue"}
KnownProjectStatuses == {"planning", "active", "on-hold", "completed"}

\* the status strings of the fetched projects and invoices
fetchedStatuses == {projects[i].status : i \in DOMAIN projects} \cup {invoices[i].status : i \in DOMAIN invoices}

\* C11: getStatusColor, on either page, gives each of the eight known statuses
\* a tag other than the default tag, and every other string the default tag
C11_StatusColorTotal == \A st \in fetchedStatuses :
    /\ st \in KnownStatuses => (dashboardGetStatusColor(st) # "bg-muted text-muted-foreground" /\ projectsGetStatusColor(st) # "bg-muted text-muted-foreground")
    /\ st \notin KnownStatuses => (dashboardGetStatusColor(st) = "bg-muted text-muted-foreground" /\ projectsGetStatusColor(st) = "bg-muted text-muted-foreground")

\* C11, as amended: the dashboard's getStatusColor gives each of the eight
\* known statuses a tag other than the default tag and every other string the
\* default tag; the Projects page's getStatusColor does so for the four
\* project statuses, every other string, the four invoice statuses included,
\* getting the default tag
C11_StatusColorByPage == \A st \in fetchedStatuses :
    /\ st \in KnownStatuses => dashboardGetStatusColor(st) # "bg-muted text-muted-foreground"
    /\ st \notin KnownStatuses => dashboardGetStatusColor(st) = "bg-muted text-muted-foreground"
    /\ st \in KnownProjectStatuses => projectsGetStatusColor(st) # "bg-muted text-muted-foreground"
    /\ st \notin KnownProjectStatuses => projectsGetStatusColor(st) = "bg-muted text-muted-foreground"

\* C11 witness: an overdue invoice and a project of an unknown status are
\* fetched and rendered
C11_Witness == kpisShown /\ projectCardsShown /\ (\E i \in DOMAIN invoices : invoices[i].status = "overdue") /\ (\E i \in DOMAIN projects : projects[i].status = "archived")

\* C12: every progress badge of the dashboard and every progress label of the
\* Projects page shows the project's progress followed by '%', a missing
\* progress showing as "0%", the value the progress bar has
C12_ProgressLabel ==
    /\ kpisShown => \A i \in DOMAIN activeProjectRows : activeProjectRows[i].badge = ToString(activeProjectRows[i].bar) \o "%" /\ (activeProjectsList[i].progress = <<>> => activeProjectRows[i].badge = "0%")
    /\ projectCardsShown => \A i \in DOMAIN projectCards : projectCards[i].label = ToString(projectCards[i].bar) \o "%" /\ (projects[i].progress = <<>> => projectCards[i].label = "0%")

\* C12, for the projects that have a progress: the label is the progress
\* followed by '%'; the bar of a project without progress is at 0
C12_ProgressLabelWhenPresent ==
    /\ kpisShown => \A i \in DOMAIN activeProjectRows : (activeProjectsList[i].progress # <<>> => activeProjectRows[i].badge = ToString(activeProjectsList[i].progress[1]) \o "%") /\ (activeProjectsList[i].progress = <<>> => activeProjectRows[i].bar = 0 /\ activeProjectRows[i].badge = "%")
    /\ projectCardsShown => \A i \in DOMAIN projectCards : (projects[i].progress # <<>> => projectCards[i].label = ToString(projects[i].progress[1]) \o "%") /\ (projects[i].progress = <<>> => projectCards[i].bar = 0 /\ projectCards[i].label = "%")

\* a credential field holding a value
PresentValues == {"https://site", "postgres://db", "root:pw", "https://v/short", "https://v/full"}

\* the action groups of a credential card: the field and the elements of each
CredentialGroups(id) == {[field |-> "liveLink", elements |-> {"button-copy-live-" \o id, "button-open-live-" \o id}], [field |-> "adminPanelLink", elements |-> {"button-copy-admin-" \o id, "button-open-admin-" \o id}], [field |-> "databaseUrl", elements |-> {"button-copy-db-" \o id}], [field |-> "serverCredentials", elements |-> {"button-copy-server-" \o id}], [field |-> "shortVideoUrl", elements |-> {"button-short-video-" \o id}], [field |-> "fullVideoUrl", elements |-> {"button-full-video-" \o id}]}

\* C13: a rendered credential card has the action group of a field if and only
\* if the record has that field, whatever the other fields are; a record with
\* only liveLink has exactly the copy and open buttons of the live link
C13_GroupIffPresent == (kpisShown /\ credentialsSection # <<>>) => \A i \in DOMAIN credentials :
    /\ credentialsSection[1].cards[i].id = credentials[i].id
    /\ \A g \in CredentialGroups(credentials[i].id) :
        /\ credentials[i][g.field] \in PresentValues => g.elements \subseteq credentialsSection[1].cards[i].elements
        /\ credentials[i][g.field] \notin PresentValues => g.elements \cap credentialsSection[1].cards[i].elements = {}
    /\ (\A g \in CredentialGroups(credentials[i].id) : credentials[i][g.field] \in PresentValues <=> g.field = "liveLink") => credentialsSection[1].cards[i].elements = {"button-copy-live-" \o credentials[i].id, "button-open-live-" \o credentials[i].id}

\* C13 witness: a record with only liveLink is rendered, its card holding the
\* two buttons of the live link and nothing else
C13_Witness == kpisShown /\ credentialsSection # <<>> /\ credentials[1].liveLink = "https://site" /\ credentials[1].adminPanelLink = Null /\ credentials[1].databaseUrl = Null /\ credentials[1].serverCredentials = Null /\ credentials[1].shortVideoUrl = Null /\ credentials[1].fullVideoUrl = Null /\ credentialsSection[1].cards[1].elements = {"button-copy-live-k1", "button-open-live-k1"}

\* C14: the credentials heading and cards are rendered only if at least one
\* record has at least one credential field, and no card is rendered for a
\* record that has none
C14_EmptyOmitted == (kpisShown /\ credentialsSection # <<>>) =>
    /\ \E i \in DOMAIN credentials : \E g \in CredentialGroups(credentials[i].id) : credentials[i][g.field] \in PresentValues
    /\ \A i \in DOMAIN credentialsSection[1].cards : credentialsSection[1].cards[i].elements # {}

\* C14, as the code has it: the section is rendered if and only if the fetched
\* list has a record, with one card per record, empty or not
C14_SectionIffRecords == (credentialsSection # <<>>) <=> (~credentialsAbsent /\ credentials # <<>>)

\* C15: a failed clipboard write changes nothing but the notification: the
\* copied indicator keeps its value, no timer is set, and the fetched data and
\* every other state are as they were
C15_FailedCopyKeepsState == [][\A w \in writes : WriteRejected(w) => (copiedField' = copiedField /\ timers' = timers /\ copyLog' = copyLog /\ queries' = queries /\ credentialsQuery' = credentialsQuery /\ credentialsSection' = credentialsSection /\ kpis(stats)' = kpis(stats) /\ pageVars' = pageVars /\ toast' = [title |-> "Failed to copy", description |-> "", variant |-> "destructive"])]_vars

\* C15 witness: a copy failed while the indicator of an earlier copy of
\* another field is on and its timer is pending
C15_Witness == toast.title = "Failed to copy" /\ copiedField = "live-k1" /\ Cardinality(timers) = 1 /\ writes = {} /\ clicks = 2

firstActive == {i \in DOMAIN projects : projects[i].status = "active" /\ Cardinality({j \in 1..(i - 1) : projects[j].status = "active"}) < 5}

\* C17: the Active Projects card lists the first (at most 5) active projects of
\* the fetched sequence in their order, Recent Invoices and Recent Payments
\* the first (at most 5) elements of theirs, and the "No active projects" line
\* is shown exactly when no fetched project is active or none is fetched
C17_ListsBounded == kpisShown =>
    /\ Len(activeProjectRows) = Cardinality(firstActive)
    /\ \A k \in DOMAIN activeProjectRows : \E i \in firstActive : Cardinality({j \in firstActive : j < i}) = k - 1 /\ activeProjectRows[k].id = projects[i].id
    /\ Len(invoiceRows) = (IF Len(invoices) > 5 THEN 5 ELSE Len(invoices))
    /\ \A k \in DOMAIN invoiceRows : invoiceRows[k].id = invoices[k].id
    /\ Len(paymentRows) = (IF Len(payments) > 5 THEN 5 ELSE Len(payments))
    /\ \A k \in DOMAIN paymentRows : paymentRows[k].id = payments[k].id
    /\ noActiveProjects <=> (projectsAbsent \/ \A i \in DOMAIN projects : projects[i].status # "active")

\* C17 witness: six projects are fetched, the first completed and the other
\* five active, with six invoices and six payments: each list has five rows
C17_Witness == kpisShown /\ Len(projects) = 6 /\ projects[1].status = "completed" /\ (\A i \in 2..6 : projects[i].status = "active") /\ Len(activeProjectRows) = 5 /\ activeProjectRows[5].id = "p6" /\ Len(invoices) = 6 /\ Len(invoiceRows) = 5 /\ Len(payments) = 6 /\ Len(paymentRows) = 5

\* an amount of cents with exactly two fraction digits
twoDigits(cents) == ToString(cents \div 100) \o "." \o ToString((cents % 100) \div 10) \o ToString(cents % 10)
itemAmount(item) == IF "amount" \in DOMAIN item /\ item.amount # <<>> THEN twoDigits(item.amount[1]) ELSE "0.00"

\* C18: every amount displayed (Total Spent, Pending Amount, the amounts of
\* the invoices and payments listed) is the units, '.', and two digits of
\* cents, and "0.00" when the stats or the amount are null or undefined
C18_TwoDigits == kpisShown =>
    /\ kpis(stats)[4] = (IF stats = <<>> THEN "0.00" ELSE twoDigits(stats[1].totalSpent[1]))
    /\ kpis(stats)[5] = (IF stats = <<>> THEN "0.00" ELSE twoDigits(stats[1].pendingAmount[1]))
    /\ \A i \in DOMAIN invoiceRows : invoiceRows[i].amount = itemAmount(invoices[i])
    /\ \A i \in DOMAIN paymentRows : paymentRows[i].amount = itemAmount(payments[i])

\* C18, but for undefined amounts: a present amount and a null one are shown
\* with two digits, an invoice or payment without amount is shown as "NaN"
C18_TwoDigitsButUndefined == kpisShown =>
    /\ kpis(stats)[4] = (IF stats = <<>> THEN "0.00" ELSE twoDigits(stats[1].totalSpent[1]))
    /\ kpis(stats)[5] = (IF stats = <<>> THEN "0.00" ELSE twoDigits(stats[1].pendingAmount[1]))
    /\ \A i \in DOMAIN invoiceRows : invoiceRows[i].amount = (IF "amount" \in DOMAIN invoices[i] THEN itemAmount(invoices[i]) ELSE "NaN")
    /\ \A i \in DOMAIN paymentRows : paymentRows[i].amount = (IF "amount" \in DOMAIN payments[i] THEN itemAmount(payments[i]) ELSE "NaN")

\* a write request that was not submitted from the dialog now open
otherSubmission(req) == (req.method = "PATCH" /\ (editingProject = <<>> \/ editingProject[1].id # req.id)) \/ (req.method = "POST" /\ editingProject # <<>>)

\* C19: the success of a mutation submitted from an earlier dialog leaves the
\* dialog now open for another project, or for a new one, as it is: open, with
\* its editingProject and the values typed into it
C19_SuccessOwnDialog == [][\A req \in pending : (MutationSuccess(req) /\ open /\ otherSubmission(req)) => (open' /\ editingProject' = editingProject /\ form' = form)]_vars

\* C20: while less than 2 seconds have passed since the latest successful copy
\* of the most recently clicked field, the indicator shows that field; once 2
\* seconds have passed since every copy, the indicator is off
C20_CopiedIndicator ==
    /\ \A c \in copyLog : ((\A d \in copyLog : d.n <= c.n) /\ now < c.at + CopiedDelay) => copiedField = c.field
    /\ (writes = {} /\ \A c \in copyLog : now > c.at + CopiedDelay) => copiedField = Null

\* C20, as far as the code has it: the indicator is off whenever no timer is
\* pending, and after a single copy it shows the field for 2 seconds
C20_IndicatorHasTimer ==
    /\ timers = {} => copiedField = Null
    /\ (writes = {} /\ \A c \in copyLog : now > c.at + CopiedDelay) => copiedField = Null
    /\ \A c \in copyLog : (Cardinality(copyLog) = 1 /\ now < c.at + CopiedDelay) => copiedField = c.field

\* C21: a press of the submit button while a write request of the same form
\* is still pending issues no second request: no request is issued that is
\* equal, in method, project and body, to one in flight
C21_NoSecondWrite == [][issued' # issued => \A r \in pending : ~(r.method = onSubmitRequest(editingProject, form).method /\ r.id = onSubmitRequest(editingProject, form).id /\ r.body = onSubmitRequest(editingProject, form).body)]_vars

\* C21, as the code has it: every press of the submit button issues a request,
\* pending or not
C21_EveryPressWrites == [][Submit => Cardinality(pending') = Cardinality(pending) + 1]_vars

\* C22: whenever the dialog is open, the form was loaded for its mode, the
\* create defaults when editingProject is null and the loaded values of the
\* project otherwise, and on every opening the form holds exactly those
\* values, so that it differs from them only by edits made since
C22_ModeMatchesForm == [][open' => ((editingProject' = <<>> => formDefaults' = createDefaults) /\ (editingProject' # <<>> => formDefaults' = handleEditValues(editingProject'[1])) /\ (~open => form' = formDefaults'))]_vars

\* C22, for the two handlers: a dialog opened by a project card or by the
\* header's Add Project button holds the values of its mode
C22_HandlersMatchForm == [][(HandleAddNew \/ \E i \in DOMAIN projects : HandleEdit(projects[i])) => (open' /\ form' = formDefaults' /\ (editingProject' = <<>> => formDefaults' = createDefaults) /\ (editingProject' # <<>> => formDefaults' = handleEditValues(editingProject'[1])))]_vars

\* C23: on every transition of the dialog from closed to open the admin
\* password is masked
C23_MaskedOnOpen == [][(~open /\ open') => ~showPassword']_vars

\* C23, for the two handlers: a dialog opened by a project card or by the
\* header's Add Project button has the password masked
C23_HandlersMask == [][(HandleAddNew \/ \E i \in DOMAIN projects : HandleEdit(projects[i])) => (open' /\ ~showPassword')]_vars

====
